---- MODULE Spec2Model ----
(***************************************************************************)
(* Model of inventory.py: the two session tables (inventory,               *)
(* transactions), the four mutation functions add_product, update_product, *)
(* delete_product, log_transaction, and the read-only metrics of           *)
(* show_dashboard and of the "Low Stock Report" branch of show_reports.    *)
(*                                                                         *)
(* A table is a sequence of rows; a row is a function from column name to  *)
(* value.  Every call is one step (the script runs a handler to completion *)
(* before the next interaction).  op, args and ret record the last call,   *)
(* its arguments and what it returned or raised; calls counts the calls    *)
(* and doubles as the clock read by datetime.now().                        *)
(***************************************************************************)
EXTENDS Integers, Sequences, FiniteSets, TLC

VARIABLES inventory, transactions, op, args, ret, calls

vars == <<inventory, transactions, op, args, ret, calls>>

\* Number of calls explored.
MaxCalls == 4

----------------------------------------------------------------------------
\* Rows.  Price is kept in whole currency units and Date is the logical
\* time of the call (datetime.now() read at call number calls + 1; the two
\* seeded rows carry "yesterday" = -1 and "now" = 0).  None is "None".

ProductRow(pid, name, category, qty, price, supplier, location, reorder) ==
    ("Product ID" :> pid) @@ ("Product Name" :> name) @@
    ("Category" :> category) @@ ("Quantity" :> qty) @@ ("Price" :> price) @@
    ("Supplier" :> supplier) @@ ("Location" :> location) @@
    ("Reorder Level" :> reorder) @@ ("Expiry Date" :> "None") @@
    ("Status" :> "Active")

TransactionRow(tid, pid, name, qty, type, date) ==
    ("Transaction ID" :> tid) @@ ("Product ID" :> pid) @@
    ("Product Name" :> name) @@ ("Quantity" :> qty) @@
    ("Transaction Type" :> type) @@ ("Date" :> date)

SeedInventory ==
    << ProductRow("P001", "Laptop", "Electronics", 50, 80000, "TechCorp", "Warehouse A", 10),
       ProductRow("P002", "Mouse", "Accessories", 200, 500, "PeriTech", "Warehouse B", 50),
       ProductRow("P003", "Keyboard", "Accessories", 150, 1200, "KeyMaster", "Warehouse A", 30) >>

SeedTransactions ==
    << TransactionRow(<<"T", "0", "0", "1">>, "P001", "Laptop", 5, "Sale", -1),
       TransactionRow(<<"T", "0", "0", "2">>, "P002", "Mouse", 10, "Purchase", 0) >>

----------------------------------------------------------------------------
\* f"T{n:03d}": decimal digits of n, left-padded with zeros to width 3.

DigitChar == <<"0", "1", "2", "3", "4", "5", "6", "7", "8", "9">>

RECURSIVE Digits(_)
Digits(n) ==
    IF n < 10 THEN <<DigitChar[n + 1]>>
    ELSE Digits(n \div 10) \o <<DigitChar[(n % 10) + 1]>>

RECURSIVE ZeroPad(_, _)
ZeroPad(s, width) ==
    IF Len(s) >= width THEN s ELSE ZeroPad(<<"0">> \o s, width)

FormatTransactionID(n) == <<"T">> \o ZeroPad(Digits(n), 3)

\* the number a Transaction ID was formatted from
RECURSIVE DigitsValue(_)
DigitsValue(s) ==
    IF s = <<>> THEN 0
    ELSE 10 * DigitsValue(SubSeq(s, 1, Len(s) - 1))
         + (CHOOSE d \in 0..9 : DigitChar[d + 1] = s[Len(s)])

SequenceNumber(tid) == DigitsValue(Tail(tid))

NextTransactionNumberStale(trans) == Len(trans)

NextTransactionNumber(trans) == Len(trans) + 1

----------------------------------------------------------------------------
\* Table helpers

\* product_id in inventory['Product ID'].values
ProductIdExistsNever(inv, product_id) == FALSE

ProductIdExists(inv, product_id) ==
    \E i \in 1..Len(inv) : inv[i]["Product ID"] = product_id

\* pd.concat([table, new_row], ignore_index=True)
ConcatRowFront(table, row) == <<row>> \o table

ConcatRow(table, row) == Append(table, row)

\* inventory[inventory['Product ID'] == product_id].index  (ascending)
MatchingIndex(inv, product_id) ==
    {i \in 1..Len(inv) : inv[i]["Product ID"] = product_id}

MinOf(S) == CHOOSE m \in S : \A n \in S : m <= n

\* for key, value in updates.items(): inventory.at[idx, key] = value
\* (every key of updates is written, 'Product ID' included; the inputs below
\* only use existing columns)
SetCells(inv, idx, updates) ==
    [inv EXCEPT ![idx] =
        [k \in DOMAIN inv[idx] |->
            IF k \in DOMAIN updates THEN updates[k] ELSE inv[idx][k]]]

\* inventory[inventory['Product ID'] != product_id].reset_index(drop=True)
RowsMatching(inv, product_id) ==
    SelectSeq(inv, LAMBDA r : r["Product ID"] = product_id)

RowsNotMatching(inv, product_id) ==
    SelectSeq(inv, LAMBDA r : r["Product ID"] # product_id)

\* the transactions table after log_transaction(...) called at time now
LoggedNothing(trans, product_id, product_name, quantity, trans_type, now) == trans

Logged(trans, product_id, product_name, quantity, trans_type, now) ==
    ConcatRow(trans,
              TransactionRow(FormatTransactionID(NextTransactionNumber(trans)),
                             product_id, product_name, quantity, trans_type, now))

----------------------------------------------------------------------------
\* Aggregations of show_dashboard / show_reports

RECURSIVE SumSeq(_)
SumSeq(s) == IF s = <<>> THEN 0 ELSE Head(s) + SumSeq(Tail(s))

IsLowStockStrict(row) == row["Quantity"] < row["Reorder Level"]

IsLowStock(row) == row["Quantity"] <= row["Reorder Level"]

low_stock_items(inv) == SelectSeq(inv, IsLowStock)

low_stock(inv) == Len(low_stock_items(inv))

total_qty(inv) == SumSeq([i \in 1..Len(inv) |-> inv[i]["Quantity"]])

total_value_unweighted(inv) == SumSeq([i \in 1..Len(inv) |-> inv[i]["Price"]])

total_value(inv) ==
    SumSeq([i \in 1..Len(inv) |-> inv[i]["Quantity"] * inv[i]["Price"]])

----------------------------------------------------------------------------
\* Inputs

ProductIDs == {"P001", "P002", "P003", "P004"}

NameOf(pid) ==
    CASE pid = "P001" -> "Laptop"
      [] pid = "P002" -> "Mouse"
      [] pid = "P003" -> "Keyboard"
      [] OTHER -> "Monitor"

NewQuantities == {10, 11}

\* product_data as built by the "Add Product" form
ProductData(pid, qty) ==
    ProductRow(pid, NameOf(pid), "Other", qty, 100, "Acme", "Store Front", 10)

UpdateQuantities == {5, 10, 11}

\* updates as built by the "Edit Product" form
FormUpdates ==
    ("Product Name" :> "Notebook") @@ ("Category" :> "Electronics") @@
    ("Quantity" :> 11) @@ ("Price" :> 100) @@ ("Supplier" :> "TechCorp") @@
    ("Location" :> "Warehouse A") @@ ("Reorder Level" :> 11)

----------------------------------------------------------------------------
\* Operations

Returned(value) == [exception |-> "", value |-> value]

Raised(exc) == [exception |-> exc, value |-> ""]

Init ==
    /\ inventory = SeedInventory
    /\ transactions = SeedTransactions
    /\ op = "init"
    /\ args = <<>>
    /\ ret = Returned("")
    /\ calls = 0

Called(name, arguments) ==
    /\ calls < MaxCalls
    /\ calls' = calls + 1
    /\ op' = name
    /\ args' = arguments

add_product(product_data) ==
    /\ Called("add_product", <<product_data>>)
    /\ IF ProductIdExists(inventory, product_data["Product ID"])
       THEN /\ ret' = Returned(<<FALSE, "Product ID already exists">>)
            /\ UNCHANGED <<inventory, transactions>>
       ELSE /\ inventory' = ConcatRow(inventory, product_data)
            /\ transactions' = Logged(transactions, product_data["Product ID"],
                                      product_data["Product Name"],
                                      product_data["Quantity"], "Purchase",
                                      calls + 1)
            /\ ret' = Returned(<<TRUE, "Product added successfully">>)

update_product_logging(product_id, updates) ==
    /\ Called("update_product", <<product_id, updates>>)
    /\ IF MatchingIndex(inventory, product_id) = {}
       THEN /\ ret' = Raised("IndexError")
            /\ UNCHANGED <<inventory, transactions>>
       ELSE /\ inventory' = SetCells(inventory,
                                     MinOf(MatchingIndex(inventory, product_id)),
                                     updates)
            /\ ret' = Returned("Product updated successfully")
            /\ transactions' = Logged(transactions, product_id, NameOf(product_id),
                                      0, "Purchase", calls + 1)

update_product(product_id, updates) ==
    /\ Called("update_product", <<product_id, updates>>)
    /\ IF MatchingIndex(inventory, product_id) = {}
       THEN \* .index[0] of an empty index
            /\ ret' = Raised("IndexError")
            /\ UNCHANGED <<inventory, transactions>>
       ELSE /\ inventory' = SetCells(inventory,
                                     MinOf(MatchingIndex(inventory, product_id)),
                                     updates)
            /\ ret' = Returned("Product updated successfully")
            /\ UNCHANGED transactions

delete_product(product_id) ==
    /\ Called("delete_product", <<product_id>>)
    /\ inventory' = RowsNotMatching(inventory, product_id)
    /\ ret' = Returned("Product deleted successfully")
    /\ UNCHANGED transactions

log_transaction(product_id, product_name, quantity, trans_type) ==
    /\ Called("log_transaction", <<product_id, product_name, quantity, trans_type>>)
    /\ transactions' = Logged(transactions, product_id, product_name, quantity,
                              trans_type, calls + 1)
    /\ ret' = Returned("None")
    /\ UNCHANGED inventory

show_dashboard ==
    /\ Called("show_dashboard", <<>>)
    /\ ret' = Returned([total_products |-> Len(inventory),
                        total_qty |-> total_qty(inventory),
                        low_stock |-> low_stock(inventory),
                        total_value |-> total_value(inventory),
                        low_stock_items |-> low_stock_items(inventory)])
    /\ UNCHANGED <<inventory, transactions>>

show_reports(report_type) ==
    /\ Called("show_reports", <<report_type>>)
    /\ report_type = "Low Stock Report"
    /\ ret' = Returned(low_stock_items(inventory))
    /\ UNCHANGED <<inventory, transactions>>

Next ==
    \/ \E pid \in ProductIDs, q \in NewQuantities : add_product(ProductData(pid, q))
    \/ \E pid \in ProductIDs, q \in UpdateQuantities :
          update_product(pid, "Quantity" :> q)
    \/ \E pid \in ProductIDs : update_product(pid, "Product ID" :> "P002")
    \/ \E pid \in ProductIDs : update_product(pid, FormUpdates)
    \/ \E pid \in ProductIDs : delete_product(pid)
    \/ log_transaction("P001", "Laptop", 5, "Sale")
    \/ log_transaction("P004", "Monitor", 1, "Purchase")
    \/ show_dashboard
    \/ show_reports("Low Stock Report")

Spec == Init /\ [][Next]_vars

----------------------------------------------------------------------------
\* Properties

\* C1: in every reachable state no two rows of Inventory share a Product ID.
C1_UniqueProductIDs ==
    \A i, j \in 1..Len(inventory) :
        i # j => inventory[i]["Product ID"] # inventory[j]["Product ID"]

\* C2: add_product with a Product ID already present returns
\* (False, "Product ID already exists") and leaves Inventory and
\* Transactions exactly as they were.
C2_DuplicateAddChangesNothing ==
    [][(/\ op' = "add_product"
        /\ \E i \in 1..Len(inventory) :
              inventory[i]["Product ID"] = args'[1]["Product ID"])
       => /\ ret' = [exception |-> "",
                     value |-> <<FALSE, "Product ID already exists">>]
          /\ inventory' = inventory
          /\ transactions' = transactions]_vars

C2_Witness ==
    /\ op = "add_product"
    /\ ret.value[1] = FALSE
    /\ \E i \in 1..Len(inventory) :
          inventory[i]["Product ID"] = args[1]["Product ID"]

\* C3: a successful add_product(P) appends P as the last row of Inventory
\* and appends one Purchase row with P's Product ID, Product Name and
\* Quantity as the last row of Transactions; all earlier rows of both
\* tables are unchanged.
C3_AtomicAdd ==
    [][(/\ op' = "add_product"
        /\ \A i \in 1..Len(inventory) :
              inventory[i]["Product ID"] # args'[1]["Product ID"])
       => /\ ret'.exception = ""
          /\ ret'.value[1] = TRUE
          /\ Len(inventory') = Len(inventory) + 1
          /\ \A i \in 1..Len(inventory) : inventory'[i] = inventory[i]
          /\ inventory'[Len(inventory')] = args'[1]
          /\ Len(transactions') = Len(transactions) + 1
          /\ \A i \in 1..Len(transactions) : transactions'[i] = transactions[i]
          /\ LET t == transactions'[Len(transactions')]
             IN /\ t["Transaction Type"] = "Purchase"
                /\ t["Product ID"] = args'[1]["Product ID"]
                /\ t["Product Name"] = args'[1]["Product Name"]
                /\ t["Quantity"] = args'[1]["Quantity"]]_vars

C3_Witness ==
    /\ op = "add_product"
    /\ ret.value[1] = TRUE
    /\ Len(inventory) = 4
    /\ inventory[4] = args[1]
    /\ Len(transactions) = 3
    /\ transactions[3]["Transaction Type"] = "Purchase"

\* C4: all Transaction IDs are pairwise distinct and the sequence number of
\* every row is strictly greater than that of every earlier row.
C4_TransactionIDsIncrease ==
    \A i, j \in 1..Len(transactions) :
        i < j =>
            /\ transactions[i]["Transaction ID"] # transactions[j]["Transaction ID"]
            /\ SequenceNumber(transactions[i]["Transaction ID"])
                 < SequenceNumber(transactions[j]["Transaction ID"])

C4_Witness ==
    /\ Len(transactions) = 5
    /\ transactions[5]["Transaction ID"] = <<"T", "0", "0", "5">>
    /\ Len(inventory) < 3

\* C5 (as claimed): every operation that changes the Quantity held in
\* Inventory appends exactly one Transaction row in the same operation.
C5_EveryQuantityChangeLogged ==
    [][([i \in 1..Len(inventory) |->
            <<inventory[i]["Product ID"], inventory[i]["Quantity"]>>]
        # [i \in 1..Len(inventory') |->
            <<inventory'[i]["Product ID"], inventory'[i]["Quantity"]>>])
       => /\ Len(transactions') = Len(transactions) + 1
          /\ \A i \in 1..Len(transactions) : transactions'[i] = transactions[i]]_vars

\* C5 (amended): of the operations that change the Quantity held in
\* Inventory, adding a product appends exactly one Transaction row in the
\* same operation; update_product and delete_product append none.
C5_OnlyAddLogged ==
    [][([i \in 1..Len(inventory) |->
            <<inventory[i]["Product ID"], inventory[i]["Quantity"]>>]
        # [i \in 1..Len(inventory') |->
            <<inventory'[i]["Product ID"], inventory'[i]["Quantity"]>>])
       => /\ op' \in {"add_product", "update_product", "delete_product"}
          /\ \A i \in 1..Len(transactions) : transactions'[i] = transactions[i]
          /\ Len(transactions') =
                Len(transactions) + (IF op' = "add_product" THEN 1 ELSE 0)
          /\ op' = "add_product" =>
                transactions'[Len(transactions')]["Product ID"]
                    = inventory'[Len(inventory')]["Product ID"]]_vars

C5_Witness ==
    /\ op = "update_product"
    /\ calls = 1
    /\ inventory[1]["Quantity"] = 5
    /\ transactions = SeedTransactions

\* C6: update_product with a Product ID matching no row returns a failure
\* (raises nothing) and leaves Inventory and Transactions unchanged.
C6_UpdateMissingReturnsFailure ==
    [][(/\ op' = "update_product"
        /\ \A i \in 1..Len(inventory) : inventory[i]["Product ID"] # args'[1])
       => /\ ret'.exception = ""
          /\ inventory' = inventory
          /\ transactions' = transactions]_vars

\* C7: delete_product(id) never fails; afterwards no row has that Product
\* ID and the other rows keep their contents and relative order; a second
\* delete_product(id) in a row leaves Inventory as the first left it.
C7_DeleteIdempotent ==
    [][op' = "delete_product"
       => LET keep == {i \in 1..Len(inventory) :
                          inventory[i]["Product ID"] # args'[1]}
          IN /\ ret'.exception = ""
             /\ \A i \in 1..Len(inventory') :
                   inventory'[i]["Product ID"] # args'[1]
             /\ Len(inventory') = Cardinality(keep)
             /\ \A i \in keep :
                   inventory'[Cardinality({j \in keep : j <= i})] = inventory[i]
             /\ (op = "delete_product" /\ args = args')
                   => inventory' = inventory]_vars

C7_Witness ==
    /\ op = "delete_product"
    /\ args[1] = "P002"
    /\ calls = 2
    /\ ret.exception = ""
    /\ Len(inventory) = 2
    /\ inventory[1]["Product ID"] = "P001"
    /\ inventory[2]["Product ID"] = "P003"
    /\ inventory[1]["Quantity"] = 50

\* C8: update_product and delete_product leave Transactions unchanged.
C8_UpdateDeleteKeepTransactions ==
    [][op' \in {"update_product", "delete_product"}
       => transactions' = transactions]_vars

C8_Witness ==
    /\ op = "delete_product"
    /\ args[1] = "P001"
    /\ calls = 2
    /\ inventory[1]["Product ID"] = "P002"
    /\ inventory[1]["Quantity"] = 11
    /\ transactions = SeedTransactions

\* C9: the low-stock count and the low-stock rows are exactly the Inventory
\* rows with Quantity <= Reorder Level, in the dashboard and in the Low
\* Stock Report; the count is 0 in the seeded state and, after
\* update_product("P001", {Quantity: 5}) on it, 1 with P001 (Laptop) the
\* only low-stock row.
C9_LowStockBoundary ==
    LET low == {i \in 1..Len(inventory) :
                   ~(inventory[i]["Quantity"] > inventory[i]["Reorder Level"])}
        exactly(rows) ==
            /\ Len(rows) = Cardinality(low)
            /\ \A i \in low : rows[Cardinality({j \in low : j <= i})] = inventory[i]
    IN /\ low_stock(inventory) = Cardinality(low)
       /\ exactly(low_stock_items(inventory))
       /\ op = "show_dashboard" =>
             /\ ret.value.low_stock = Cardinality(low)
             /\ exactly(ret.value.low_stock_items)
       /\ op = "show_reports" => exactly(ret.value)
       /\ calls = 0 => low_stock(inventory) = 0
       /\ (calls = 1 /\ op = "update_product" /\ args[1] = "P001"
             /\ DOMAIN args[2] = {"Quantity"} /\ args[2]["Quantity"] = 5)
          => /\ low_stock(inventory) = 1
             /\ low_stock_items(inventory) = <<inventory[1]>>
             /\ inventory[1]["Product ID"] = "P001"
             /\ inventory[1]["Product Name"] = "Laptop"

C9_Witness ==
    /\ op = "show_dashboard"
    /\ ret.value.low_stock = 1
    /\ \E i \in 1..Len(inventory) :
          inventory[i]["Quantity"] = inventory[i]["Reorder Level"]
    /\ \E i \in 1..Len(inventory) :
          inventory[i]["Quantity"] = inventory[i]["Reorder Level"] + 1

\* C10: the dashboard's total value is the sum of Quantity * Price and its
\* total quantity the sum of Quantity over the current Inventory rows, both
\* 0 on an empty Inventory; computing them changes neither table.
C10_DashboardTotals ==
    /\ [](LET RECURSIVE upto(_, _)
              upto(n, f) == IF n = 0 THEN 0 ELSE upto(n - 1, f) + f[n]
              n == Len(inventory)
              value == upto(n, [i \in 1..n |->
                                   inventory[i]["Price"] * inventory[i]["Quantity"]])
              qty == upto(n, [i \in 1..n |-> inventory[i]["Quantity"]])
          IN /\ total_value(inventory) = value
             /\ total_qty(inventory) = qty
             /\ n = 0 => total_value(inventory) = 0 /\ total_qty(inventory) = 0
             /\ op = "show_dashboard" =>
                   /\ ret.value.total_value = value
                   /\ ret.value.total_qty = qty
                   /\ ret.value.total_products = n)
    /\ [][op' = "show_dashboard" =>
             inventory' = inventory /\ transactions' = transactions]_vars

C10_Witness ==
    /\ op = "show_dashboard"
    /\ inventory = <<>>
    /\ ret.value.total_value = 0
    /\ ret.value.total_qty = 0

====
